---- MODULE Spec2Model ----
(***************************************************************************)
(* CUR sample selection (skcosmo/sample_selection/simple_cur.py).          *)
(*                                                                         *)
(* The selector is an object whose fields (X_current, y_current, pi_ and   *)
(* the fields of the GreedySelector base class) are mutated by fit().      *)
(* Matrices are modelled exactly: a matrix is a sequence of rows, a row a  *)
(* pair of rationals (two features), a rational a normalised pair          *)
(* <<numerator, denominator>>.  The 1e-12 tolerances of the code compare   *)
(* exact rationals here, so "norm < tol" is decided exactly.               *)
(***************************************************************************)
EXTENDS Integers, Sequences, FiniteSets, TLC

(***************************************************************************)
(* Bounds of the model.                                                    *)
(***************************************************************************)
\* number of samples (rows of X)
NSamples == 3
\* number of distinguishable states of a RandomState handle
RngStates == 2

\* Python's None, and an attribute not set yet
None == <<>>

Samples == 1..NSamples

(***************************************************************************)
(* Exact rational arithmetic.                                              *)
(***************************************************************************)
Abs(a) == IF a < 0 THEN -a ELSE a

RECURSIVE GCD(_, _)
GCD(a, b) == IF b = 0 THEN a ELSE GCD(b, a % b)

\* the normalised rational n/d (d # 0)
Rat(n, d) ==
    LET g == GCD(Abs(n), Abs(d))
        s == IF d < 0 THEN -1 ELSE 1
    IN  <<(s * n) \div g, (s * d) \div g>>

Zero == <<0, 1>>
One == <<1, 1>>
RAdd(p, q) == Rat(p[1] * q[2] + q[1] * p[2], p[2] * q[2])
RSub(p, q) == Rat(p[1] * q[2] - q[1] * p[2], p[2] * q[2])
RMul(p, q) == Rat(p[1] * q[1], p[2] * q[2])
RDiv(p, q) == Rat(p[1] * q[2], p[2] * q[1])
RLess(p, q) == p[1] * q[2] < q[1] * p[2]
RLeq(p, q) == p[1] * q[2] <= q[1] * p[2]

\* the rational square root of a rational that has one
ISqrt(n) == CHOOSE r \in 0..n : r * r = n
HasISqrt(n) == \E r \in 0..n : r * r = n
RSqrt(p) == <<ISqrt(p[1]), ISqrt(p[2])>>

(***************************************************************************)
(* Decimal floats m * 10^-e (thresholds and tolerances): a score n/d is at *)
(* or below m * 10^-e iff n * 10^e <= m * d iff n <= (m * d) div 10^e.     *)
(***************************************************************************)
RECURSIVE DivPow10(_, _)
DivPow10(a, e) == IF e = 0 THEN a ELSE DivPow10(a \div 10, e - 1)

LeqDec(p, t) == p[1] <= DivPow10(t[1] * p[2], t[2])

(***************************************************************************)
(* Rows and matrices.                                                      *)
(***************************************************************************)
Dot(u, v) == RAdd(RMul(u[1], v[1]), RMul(u[2], v[2]))
Scale(a, u) == <<RMul(a, u[1]), RMul(a, u[2])>>
VSub(u, v) == <<RSub(u[1], v[1]), RSub(u[2], v[2])>>
ZeroRow == <<Zero, Zero>>

RECURSIVE RSum(_)
RSum(s) == IF s = <<>> THEN Zero ELSE RAdd(Head(s), RSum(Tail(s)))

\* the rows of M picked by the index sequence idx (numpy's M[idx])
Rows(M, idx) == [i \in 1..Len(idx) |-> M[idx[i]]]

\* the increasing sequence of the indices j with mask[j]
RECURSIVE MaskIdxFrom(_, _)
MaskIdxFrom(mask, j) ==
    IF j > Len(mask) THEN <<>>
    ELSE IF mask[j] THEN <<j>> \o MaskIdxFrom(mask, j + 1)
    ELSE MaskIdxFrom(mask, j + 1)
MaskIdx(mask) == MaskIdxFrom(mask, 1)

(***************************************************************************)
(* Orthogonalization utilities (skcosmo.utils; imported at line 7).        *)
(***************************************************************************)
\* row u with its component along the non-zero row r removed
ProjectOut(u, r) == VSub(u, Scale(RDiv(Dot(u, r), Dot(r, r)), r))

\* X_orthogonalizer(x1 = M.T, c = c).T: every row of M orthogonalized
\* against row c of M; a direction of norm below the tolerance is skipped
X_orthogonalizer_c(M, c) ==
    IF Dot(M[c], M[c]) = Zero THEN M
    ELSE [j \in 1..Len(M) |-> ProjectOut(M[j], M[c])]

\* X_orthogonalizer(M.T, x2 = R.T).T: the span of the rows of R removed
\* from every row of M (the reference rows are orthogonalized in turn)
RECURSIVE X_orthogonalizer_x2(_, _)
X_orthogonalizer_x2(M, R) ==
    IF R = <<>> THEN M
    ELSE LET r == Head(R)
         IN  IF Dot(r, r) = Zero THEN X_orthogonalizer_x2(M, Tail(R))
             ELSE X_orthogonalizer_x2(
                      [j \in 1..Len(M) |-> ProjectOut(M[j], r)],
                      [j \in 1..Len(R) - 1 |-> ProjectOut(R[j + 1], r)])

\* numpy.linalg.lstsq(X_ref, y_ref)[0]: the least-squares weights of
\* minimum norm, from the normal equations of a two-feature matrix
Lstsq(X_ref, y_ref) ==
    LET m == Len(X_ref)
        a == RSum([i \in 1..m |-> RMul(X_ref[i][1], X_ref[i][1])])
        b == RSum([i \in 1..m |-> RMul(X_ref[i][1], X_ref[i][2])])
        c == RSum([i \in 1..m |-> RMul(X_ref[i][2], X_ref[i][2])])
        g1 == RSum([i \in 1..m |-> RMul(X_ref[i][1], y_ref[i])])
        g2 == RSum([i \in 1..m |-> RMul(X_ref[i][2], y_ref[i])])
        det == RSub(RMul(a, c), RMul(b, b))
        tr == RAdd(a, c)
    IN  IF det # Zero
        THEN <<RDiv(RSub(RMul(c, g1), RMul(b, g2)), det),
               RDiv(RSub(RMul(a, g2), RMul(b, g1)), det)>>
        ELSE IF tr # Zero THEN <<RDiv(g1, tr), RDiv(g2, tr)>>
        ELSE ZeroRow

\* the reference matrices must have as many rows as each other
LstsqDefined(X_ref, y_ref) == Len(X_ref) = Len(y_ref)

\* Y_sample_orthogonalizer(y, X, y_ref, X_ref): y minus the prediction of
\* the regression fitted on the reference samples
Y_sample_orthogonalizer(y, M, y_ref, X_ref) ==
    LET w == Lstsq(X_ref, y_ref)
    IN  [j \in 1..Len(y) |-> RSub(y[j], Dot(M[j], w))]

(***************************************************************************)
(* randomized_svd(M, n_components = 1) followed by line 181: the squared   *)
(* entries of the leading left singular vector of M.  Where that vector is *)
(* not determined by M (M is zero, or its two singular values are equal)   *)
(* the vector returned depends on the random draw.                         *)
(***************************************************************************)
LeadingLeftSquared(M, draw) ==
    LET m == Len(M)
        a == RSum([i \in 1..m |-> RMul(M[i][1], M[i][1])])
        b == RSum([i \in 1..m |-> RMul(M[i][1], M[i][2])])
        c == RSum([i \in 1..m |-> RMul(M[i][2], M[i][2])])
        tr == RAdd(a, c)
        det == RSub(RMul(a, c), RMul(b, b))
        disc == RAdd(RMul(RSub(a, c), RSub(a, c)), RMul(<<4, 1>>, RMul(b, b)))
        lambda == RDiv(RAdd(tr, RSqrt(disc)), <<2, 1>>)
        e1 == <<One, Zero>>
        e2 == <<Zero, One>>
        v == IF disc = Zero THEN (IF draw % 2 = 0 THEN e1 ELSE e2)
             ELSE IF b # Zero THEN <<b, RSub(lambda, a)>>
             ELSE IF RLess(c, a) THEN e1 ELSE e2
    IN  IF m = 0 THEN <<>>
        ELSE IF tr = Zero
        THEN [j \in 1..m |-> IF j = (draw % m) + 1 THEN One ELSE Zero]
        ELSE IF det = Zero
        THEN [j \in 1..m |-> RDiv(Dot(M[j], M[j]), tr)]
        ELSE [j \in 1..m |->
                 RDiv(RMul(Dot(M[j], v), Dot(M[j], v)),
                      RMul(lambda, Dot(v, v)))]

\* matrices whose leading singular vector is rational
SvdRational(M) ==
    LET m == Len(M)
        a == RSum([i \in 1..m |-> RMul(M[i][1], M[i][1])])
        b == RSum([i \in 1..m |-> RMul(M[i][1], M[i][2])])
        c == RSum([i \in 1..m |-> RMul(M[i][2], M[i][2])])
        disc == RAdd(RMul(RSub(a, c), RSub(a, c)), RMul(<<4, 1>>, RMul(b, b)))
    IN  HasISqrt(disc[1]) /\ HasISqrt(disc[2])

(***************************************************************************)
(* State.                                                                  *)
(***************************************************************************)
VARIABLES
    \* constructor arguments (lines 91-101) and what __init__ stores
    k,                       \* self.k
    iterative,               \* self.iterative
    random_state,            \* self.random_state: None, <<"seed", n>>, Handle
    score_thresh_to_select,  \* the caller's argument: None or a decimal
    tolerance,               \* the caller's argument: a decimal
    score_threshold,         \* the threshold held by the GreedySelector base
    \* the caller's data
    X,                       \* the sample matrix
    Y,                       \* the targets the caller has
    \* the arguments of the fit in progress (or of the last one)
    fit_y,                   \* y of the fit: None or Y
    n_to_select,             \* number of selections at which the loop ends
    warm_start,              \* whether the fit continues earlier selections
    \* fields of the selector
    X_current,
    y_current,
    pi_,
    eligible_,
    selected_idx_,
    X_selected_,
    y_selected_,
    n_selected_,
    \* control
    pc,                      \* "idle", "loop", "picked", "done", "raised"
    last_selected,           \* the index handed to _update_post_selection
    stopped_by,              \* why the last loop ended: "none", "count", "score"
    rng,                     \* internal state of the RandomState handle
    \* history
    stage_base,              \* n_selected_ when the current stage started
    fresh_n,                 \* n_to_select of the last fresh fit
    rng0,                    \* rng when the last fresh fit started
    prev_run                 \* <<record>> of an earlier completed fresh fit

params == <<k, iterative, random_state, score_thresh_to_select, tolerance,
            score_threshold, X, Y>>
fitargs == <<fit_y, n_to_select, warm_start>>
greedy == <<eligible_, selected_idx_, X_selected_, y_selected_, n_selected_>>
working == <<X_current, y_current, pi_>>
vars == <<params, fitargs, greedy, working, pc, last_selected, stopped_by,
          rng, stage_base, fresh_n, rng0, prev_run>>

(***************************************************************************)
(* Inputs.                                                                 *)
(***************************************************************************)
\* X is a non-zero matrix of two binary features whose leading singular
\* vector is rational, its rows listed in non-increasing order (the order of
\* the rows only decides which of two equal scores comes first)
Vals == {0, 1}
IntRow(a, b) == <<Rat(a, 1), Rat(b, 1)>>
InputRows == {IntRow(a, b) : a \in Vals, b \in Vals}
RowKey(r) == 2 * r[1][1] + r[2][1]
InputMatrices ==
    {M \in [Samples -> InputRows] :
        /\ \A j \in 1..(NSamples - 1) : RowKey(M[j]) >= RowKey(M[j + 1])
        /\ RowKey(M[1]) > 0
        /\ SvdRational(M)}
InputTargets == {[j \in Samples |-> Rat(j, 1)]}

\* tolerance = 1e-12 (line 97)
DefaultTolerance == <<1, 12>>
\* a threshold a caller may ask for: 0.5
HalfThreshold == <<5, 1>>

RankValues == 0..1
\* random_state = 0, an integer seed
SeedValues == {<<"seed", 0>>}
\* random_state = a numpy RandomState instance
Handle == <<"handle">>

(***************************************************************************)
(* CUR.__init__ (lines 91-114): the state after construction.              *)
(***************************************************************************)
\* a plausible slip: the caller's threshold handed on, not the tolerance
InitScoreThreshold_caller(thresh, tol) == thresh

\* the value __init__ hands to the base class as score_thresh_to_select
InitScoreThreshold(thresh, tol) == tol

Init ==
    /\ k \in RankValues
    /\ iterative \in BOOLEAN
    /\ random_state \in {None, Handle} \cup SeedValues
    /\ score_thresh_to_select \in {None, HalfThreshold}
    /\ tolerance = DefaultTolerance
    /\ score_threshold = InitScoreThreshold(score_thresh_to_select, tolerance)
    /\ X \in InputMatrices
    /\ Y \in InputTargets
    /\ fit_y = None
    /\ n_to_select = 0
    /\ warm_start = FALSE
    /\ X_current = None
    /\ y_current = None
    /\ pi_ = None
    /\ eligible_ = None
    /\ selected_idx_ = <<>>
    /\ X_selected_ = <<>>
    /\ y_selected_ = <<>>
    /\ n_selected_ = 0
    /\ pc = "idle"
    /\ last_selected = 0
    /\ stopped_by = "none"
    /\ rng = 0
    /\ stage_base = 0
    /\ fresh_n = 0
    /\ rng0 = 0
    /\ prev_run = None

(***************************************************************************)
(* Random state (line 171): check_random_state(self.random_state).         *)
(* An integer seeds a new generator at every call; a handle is returned as *)
(* it is, and the draws advance it; None is numpy's global generator.      *)
(***************************************************************************)
\* a plausible slip: one generator made from the integer seed and shared
\* by all the calls
check_random_state_shared ==
    IF random_state = None THEN <<0..(RngStates - 1), rng>>
    ELSE IF random_state = Handle THEN <<{rng}, (rng + 1) % RngStates>>
    ELSE <<{(random_state[2] + rng) % RngStates}, (rng + 1) % RngStates>>

\* <<the draws the generator may give, the handle's state after them>>
check_random_state ==
    IF random_state = None THEN <<0..(RngStates - 1), rng>>
    ELSE IF random_state = Handle THEN <<{rng}, (rng + 1) % RngStates>>
    ELSE <<{random_state[2] % RngStates}, rng>>

Draws == check_random_state[1]

AfterDraw == check_random_state[2]

(***************************************************************************)
(* CUR._compute_pi (lines 158-182).  The target y does not enter.          *)
(***************************************************************************)
compute_pi(M, y, draw) ==
    IF k >= 1 THEN LeadingLeftSquared(M, draw)
    ELSE [j \in 1..Len(M) |-> Zero]

\* CUR.score (lines 151-156)
score == pi_

(***************************************************************************)
(* The GreedySelector base class (._greedy, line 6).                       *)
(***************************************************************************)
EligibleSet(elig) == {j \in 1..Len(elig) : elig[j]}

\* the best-scoring eligible sample, the first one among equals
BestEligible(scores, elig) ==
    CHOOSE j \in EligibleSet(elig) :
        \A i \in EligibleSet(elig) :
            /\ RLeq(scores[i], scores[j])
            /\ scores[i] = scores[j] => j <= i

\* the stop rule on the score: the best remaining score is at or below
\* the threshold
ScoreStop(scores, elig) ==
    /\ score_threshold # None
    /\ LeqDec(scores[BestEligible(scores, elig)], score_threshold)

\* one round of the loop: score, and pick the best eligible sample
Pick ==
    /\ pc = "loop"
    /\ n_selected_ < n_to_select
    /\ ~ScoreStop(score, eligible_)
    /\ last_selected' = BestEligible(score, eligible_)
    /\ pc' = "picked"
    /\ UNCHANGED <<params, fitargs, greedy, working, stopped_by, rng,
                   stage_base, fresh_n, rng0, prev_run>>

\* the loop ends: the requested count is reached
StopCount ==
    /\ pc = "loop"
    /\ n_selected_ >= n_to_select
    /\ pc' = "done"
    /\ stopped_by' = "count"
    /\ UNCHANGED <<params, fitargs, greedy, working, last_selected, rng,
                   stage_base, fresh_n, rng0, prev_run>>

\* the loop ends: no remaining score is above the threshold
StopScore ==
    /\ pc = "loop"
    /\ n_selected_ < n_to_select
    /\ ScoreStop(score, eligible_)
    /\ pc' = "done"
    /\ stopped_by' = "score"
    /\ UNCHANGED <<params, fitargs, greedy, working, last_selected, rng,
                   stage_base, fresh_n, rng0, prev_run>>

(***************************************************************************)
(* CUR._init_greedy_search (lines 116-130), entered by a fresh fit.        *)
(* randomized_svd with n_components < 1 either raises or returns no        *)
(* singular vector, depending on the library version.                      *)
(***************************************************************************)
\* a plausible slip: line 130 calls the base class's continuing
\* initializer, which keeps what an earlier fit selected
init_greedy_search_keep(y, n) ==
    /\ fit_y' = y
    /\ n_to_select' = n
    /\ warm_start' = FALSE
    /\ rng0' = rng
    /\ fresh_n' = n
    /\ stage_base' = 0
    /\ last_selected' = 0
    /\ stopped_by' = "none"
    /\ X_current' = X
    /\ y_current' = y
    /\ \/ /\ k < 1
          /\ pc' = "raised"
          /\ UNCHANGED <<pi_, greedy, rng>>
       \/ \E draw \in Draws :
            /\ pi_' = compute_pi(X, y, draw)
            /\ rng' = AfterDraw
            /\ eligible_' = IF eligible_ = None THEN [j \in Samples |-> TRUE]
                            ELSE eligible_
            /\ UNCHANGED <<selected_idx_, X_selected_, y_selected_,
                           n_selected_>>
            /\ pc' = "loop"
    /\ UNCHANGED params

init_greedy_search(y, n) ==
    /\ fit_y' = y
    /\ n_to_select' = n
    /\ warm_start' = FALSE
    /\ rng0' = rng
    /\ fresh_n' = n
    /\ stage_base' = 0
    /\ last_selected' = 0
    /\ stopped_by' = "none"
    /\ X_current' = X
    /\ y_current' = y
    /\ \/ /\ k < 1
          /\ pc' = "raised"
          /\ UNCHANGED <<pi_, greedy, rng>>
       \/ \E draw \in Draws :
            /\ pi_' = compute_pi(X, y, draw)
            /\ rng' = AfterDraw
            /\ eligible_' = [j \in Samples |-> TRUE]
            /\ selected_idx_' = <<>>
            /\ X_selected_' = <<>>
            /\ y_selected_' = <<>>
            /\ n_selected_' = 0
            /\ pc' = "loop"
    /\ UNCHANGED params

(***************************************************************************)
(* CUR._continue_greedy_search (lines 132-149), entered by a fit that      *)
(* continues on top of earlier selections.  lstsq raises on reference      *)
(* matrices of different row counts.                                       *)
(***************************************************************************)
\* a plausible slip: line 149 calls the base class's fresh initializer,
\* which forgets what the earlier stages selected
continue_greedy_search_reset(y, m) ==
    /\ n_selected_ > 0
    /\ n_selected_ + m <= NSamples
    /\ fit_y' = y
    /\ n_to_select' = n_selected_ + m
    /\ warm_start' = TRUE
    /\ stage_base' = n_selected_
    /\ last_selected' = 0
    /\ stopped_by' = "none"
    /\ X_current' = X_orthogonalizer_x2(X, X_selected_)
    /\ \/ /\ y_current # None
          /\ ~LstsqDefined(X_selected_, y_selected_)
          /\ pc' = "raised"
          /\ UNCHANGED <<y_current, pi_, rng, greedy>>
       \/ /\ y_current # None => LstsqDefined(X_selected_, y_selected_)
          /\ y_current' =
                IF y_current # None
                THEN Y_sample_orthogonalizer(y_current, X_current',
                                             y_selected_, X_selected_)
                ELSE None
          /\ \E draw \in Draws :
                /\ pi_' = compute_pi(X_current', y_current', draw)
                /\ rng' = AfterDraw
          /\ eligible_' = [j \in Samples |-> TRUE]
          /\ selected_idx_' = <<>>
          /\ X_selected_' = <<>>
          /\ y_selected_' = <<>>
          /\ n_selected_' = 0
          /\ pc' = "loop"
    /\ UNCHANGED <<params, fresh_n, rng0>>

continue_greedy_search(y, m) ==
    /\ n_selected_ > 0
    /\ n_selected_ + m <= NSamples
    /\ fit_y' = y
    /\ n_to_select' = n_selected_ + m
    /\ warm_start' = TRUE
    /\ stage_base' = n_selected_
    /\ last_selected' = 0
    /\ stopped_by' = "none"
    /\ X_current' = X_orthogonalizer_x2(X, X_selected_)
    /\ \/ /\ y_current # None
          /\ ~LstsqDefined(X_selected_, y_selected_)
          /\ pc' = "raised"
          /\ UNCHANGED <<y_current, pi_, rng>>
       \/ /\ y_current # None => LstsqDefined(X_selected_, y_selected_)
          /\ y_current' =
                IF y_current # None
                THEN Y_sample_orthogonalizer(y_current, X_current',
                                             y_selected_, X_selected_)
                ELSE None
          /\ \E draw \in Draws :
                /\ pi_' = compute_pi(X_current', y_current', draw)
                /\ rng' = AfterDraw
          /\ pc' = "loop"
    /\ UNCHANGED <<params, greedy, fresh_n, rng0>>

(***************************************************************************)
(* CUR._update_post_selection (lines 184-214).                             *)
(***************************************************************************)
\* a plausible slip: the working matrix re-orthogonalized at every pick
ShouldOrthogonalize_always == TRUE

\* line 192
ShouldOrthogonalize == iterative

\* a plausible slip: the matrix orthogonalized before the targets are
\* regressed against it
UpdateWorking_swapped(ycur, Xcur, ysel, Xsel, c) ==
    LET Xnew == X_orthogonalizer_c(Xcur, c)
    IN  <<IF ycur # None
          THEN Y_sample_orthogonalizer(ycur, Xnew, ysel, Xsel)
          ELSE None,
          Xnew>>

\* lines 193-203: the working targets, regressed against the selected
\* samples through the working matrix as it is, and then the working
\* matrix, orthogonalized against the sample just selected
UpdateWorking(ycur, Xcur, ysel, Xsel, c) ==
    <<IF ycur # None
      THEN Y_sample_orthogonalizer(ycur, Xcur, ysel, Xsel)
      ELSE None,
      X_orthogonalizer_c(Xcur, c)>>

\* lines 205-212: the scores of the eligible rows are recomputed from the
\* eligible rows of the working matrix, the others are left as they are
RecomputeEligible(pi, M, y, elig, draw) ==
    LET new == compute_pi(Rows(M, MaskIdx(elig)), y, draw)
    IN  [j \in 1..Len(pi) |->
            IF elig[j] THEN new[Cardinality({i \in 1..j : elig[i]})]
            ELSE pi[j]]

\* line 214
ZeroSelected(pi, c) == [pi EXCEPT ![c] = Zero]

update_post_selection ==
    /\ pc = "picked"
    /\ LET c == last_selected
           Xsel == Append(X_selected_, X[c])
           ysel == IF fit_y # None THEN Append(y_selected_, fit_y[c])
                   ELSE y_selected_
           elig == [eligible_ EXCEPT ![c] = FALSE]
           new == UpdateWorking(y_current, X_current, ysel, Xsel, c)
       IN  \* line 190: the base class records the selection
           /\ selected_idx_' = Append(selected_idx_, c)
           /\ X_selected_' = Xsel
           /\ y_selected_' = ysel
           /\ eligible_' = elig
           /\ n_selected_' = n_selected_ + 1
           /\ \/ /\ ~ShouldOrthogonalize
                 /\ pi_' = ZeroSelected(pi_, c)
                 /\ pc' = "loop"
                 /\ UNCHANGED <<X_current, y_current, rng>>
              \/ /\ ShouldOrthogonalize
                 /\ y_current # None
                 /\ ~LstsqDefined(Xsel, ysel)
                 /\ pc' = "raised"
                 /\ UNCHANGED <<working, rng>>
              \/ /\ ShouldOrthogonalize
                 /\ y_current # None => LstsqDefined(Xsel, ysel)
                 /\ y_current' = new[1]
                 /\ X_current' = new[2]
                 /\ \E draw \in Draws :
                       /\ pi_' = ZeroSelected(
                                    RecomputeEligible(pi_, X_current',
                                                      y_current', elig, draw),
                                    c)
                       /\ rng' = AfterDraw
                 /\ pc' = "loop"
    /\ UNCHANGED <<params, fitargs, last_selected, stopped_by, stage_base,
                   fresh_n, rng0, prev_run>>

(***************************************************************************)
(* fit(): a fresh fit or a continued one, with or without targets.         *)
(***************************************************************************)
Fitted == pc \in {"done", "raised"}

FitFresh ==
    /\ pc = "idle"
    /\ \E n \in Samples, y \in {None, Y} : init_greedy_search(y, n)
    /\ UNCHANGED prev_run

FitContinue ==
    /\ Fitted
    /\ \E m \in Samples, y \in {None, Y} : continue_greedy_search(y, m)
    /\ UNCHANGED prev_run

Next ==
    \/ FitFresh
    \/ FitContinue
    \/ Pick
    \/ update_post_selection
    \/ StopCount
    \/ StopScore

Spec == Init /\ [][Next]_vars

(***************************************************************************)
(* One selector fitted by a caller who compares runs: a fresh fit, then    *)
(* another fresh fit on the same data, then a continued fit.  The result   *)
(* of the first run is kept in prev_run.                                   *)
(***************************************************************************)
RunRecord == [n |-> n_to_select, y |-> fit_y, idx |-> selected_idx_,
              rng0 |-> rng0]

InitRuns ==
    /\ Init
    /\ score_thresh_to_select = None

Refit ==
    /\ pc = "done"
    /\ prev_run = None
    /\ prev_run' = <<RunRecord>>
    /\ \E n \in Samples : init_greedy_search(fit_y, n)

ContinueRun ==
    /\ pc = "done"
    /\ prev_run # None
    /\ ~warm_start
    /\ \E m \in Samples : continue_greedy_search(fit_y, m)
    /\ UNCHANGED prev_run

NextRuns ==
    \/ FitFresh
    \/ Refit
    \/ ContinueRun
    \/ Pick
    \/ update_post_selection
    \/ StopCount
    \/ StopScore

SpecRuns == InitRuns /\ [][NextRuns]_vars

(***************************************************************************)
(* Properties.                                                             *)
(***************************************************************************)
Min(a, b) == IF a < b THEN a ELSE b
NoDuplicates(s) == \A i, j \in 1..Len(s) : i # j => s[i] # s[j]
Running == pc \in {"loop", "picked", "done"}
AllZero(pi) == \A j \in 1..Len(pi) : pi[j] = Zero
Prev == prev_run[1]

\* C1: the selected indices never hold a duplicate, and a fit that returns
\* has selected exactly min(n_to_select, number of samples) samples, or at
\* most that many when the score threshold stopped it.
C1_SelectionCount ==
    /\ NoDuplicates(selected_idx_)
    /\ pc = "done" =>
          IF stopped_by = "score"
          THEN Len(selected_idx_) <= Min(n_to_select, NSamples)
          ELSE Len(selected_idx_) = Min(n_to_select, NSamples)

C1_Witness ==
    /\ pc = "done"
    /\ prev_run # None
    /\ stopped_by = "count"
    /\ Len(selected_idx_) = Min(n_to_select, NSamples)
    /\ Len(selected_idx_) >= 2
    /\ Len(selected_idx_) < Len(Prev.idx)

\* C2 (as claimed): during a run, the score of every selected sample is
\* exactly zero, also after a continued start.
C2_SelectedScoreZero ==
    Running =>
        \A i \in 1..Len(selected_idx_) : pi_[selected_idx_[i]] = Zero

\* C3 (as claimed): with score_thresh_to_select set, no sample is picked
\* while the best remaining score is at or below that threshold.
C3_CallerThresholdApplied ==
    (pc = "picked" /\ score_thresh_to_select # None) =>
        ~LeqDec(pi_[last_selected], score_thresh_to_select)

\* C4: a fit ends only because the count is reached or because no remaining
\* score is above the tolerance; and once all scores are zero with the
\* count unmet, the next step ends the fit with what is selected so far.
C4_StopState ==
    pc = "done" =>
        \/ stopped_by = "count" /\ n_selected_ = n_to_select
        \/ /\ stopped_by = "score"
           /\ n_selected_ < n_to_select
           /\ \A j \in EligibleSet(eligible_) : LeqDec(pi_[j], tolerance)

C4_StopStep ==
    (pc = "loop" /\ n_selected_ < n_to_select /\ AllZero(pi_)) =>
        (pc' = "done" /\ selected_idx_' = selected_idx_)

C5_UpdateStep ==
    (pc = "picked" /\ ~iterative /\ pc' # "picked") =>
        /\ X_current' = X_current
        /\ y_current' = y_current
        /\ pi_' = [pi_ EXCEPT ![last_selected] = Zero]

C5_StageMatrix ==
    (~iterative /\ warm_start) =>
        X_current = X_orthogonalizer_x2(X, SubSeq(X_selected_, 1, stage_base))

C5_NonIterativeFrame == [](C5_StageMatrix) /\ [][C5_UpdateStep]_vars

C5_Witness ==
    /\ ~iterative
    /\ warm_start
    /\ pc = "done"
    /\ n_selected_ > stage_base
    /\ X_current # X
    /\ ~AllZero(pi_)

\* two fits are seeded identically: an integer seed, or a handle that is
\* in the same state when each of them starts
IdenticalSeeding ==
    \/ random_state \in SeedValues
    \/ random_state = Handle /\ Prev.rng0 = rng0

\* C6: with iterative = true and identical seeding, a fresh fit for fresh_n
\* samples continued to n_to_select samples starts with the same fresh_n
\* indices as a single fresh fit for n_to_select samples on the same input.
C6_ContinuationConsistent ==
    ( /\ pc = "done"
      /\ warm_start
      /\ iterative
      /\ prev_run # None
      /\ IdenticalSeeding
      /\ Prev.n = n_to_select
      /\ Prev.y = fit_y ) =>
        \A i \in 1..fresh_n :
            /\ i <= Len(selected_idx_)
            /\ i <= Len(Prev.idx)
            /\ selected_idx_[i] = Prev.idx[i]

C6_Witness ==
    /\ pc = "done"
    /\ warm_start
    /\ iterative
    /\ prev_run # None
    /\ random_state \in SeedValues
    /\ Prev.n = n_to_select
    /\ Prev.y = fit_y
    /\ fresh_n = stage_base
    /\ n_selected_ > stage_base

\* C7 (as claimed): two fresh fits with the same input, configuration and
\* random_state, an integer or a handle, select the same indices.
C7_SameSeedSameSelection ==
    ( /\ pc = "done"
      /\ ~warm_start
      /\ prev_run # None
      /\ random_state # None
      /\ Prev.n = n_to_select
      /\ Prev.y = fit_y ) =>
        selected_idx_ = Prev.idx

\* C7 (amended): two fresh fits with the same input and configuration
\* select the same indices when random_state is an integer, or a handle
\* that is in the same state at the start of both.
C7_IdenticalSeedingSameSelection ==
    ( /\ pc = "done"
      /\ ~warm_start
      /\ prev_run # None
      /\ IdenticalSeeding
      /\ Prev.n = n_to_select
      /\ Prev.y = fit_y ) =>
        selected_idx_ = Prev.idx

C7_Witness ==
    /\ pc = "done"
    /\ ~warm_start
    /\ prev_run # None
    /\ random_state = Handle
    /\ Prev.rng0 = rng0
    /\ Prev.n = n_to_select
    /\ Prev.y = fit_y
    /\ Len(selected_idx_) >= 2
    /\ X_current # X

\* C8 (as claimed): with k < 1 a fit is rejected before any score is
\* computed and leaves no working matrix, working target, score or
\* selection behind.
C8_NonPositiveRankRejected ==
    k < 1 =>
        /\ pc \in {"idle", "raised"}
        /\ X_current = None
        /\ y_current = None
        /\ pi_ = None
        /\ selected_idx_ = <<>>

\* C9: an update with iterative = true first records the pick, then
\* regresses the working target through the working matrix as it was
\* before, then orthogonalizes the working matrix against the row picked,
\* then recomputes the scores of the eligible rows only, and last sets the
\* score of the sample picked to zero; pi_ has one entry per sample.
C9_UpdateStep ==
    (pc = "picked" /\ iterative /\ pc' = "loop") =>
        LET c == last_selected
            idx == MaskIdx(eligible_')
        IN  /\ selected_idx_' = Append(selected_idx_, c)
            /\ X_selected_' = Append(X_selected_, X[c])
            /\ ~eligible_'[c]
            /\ y_current # None =>
                  y_current' = Y_sample_orthogonalizer(
                                  y_current, X_current, y_selected_',
                                  X_selected_')
            /\ X_current' = X_orthogonalizer_c(X_current, c)
            /\ \E draw \in 0..(RngStates - 1) :
                  \A i \in 1..Len(idx) :
                      pi_'[idx[i]] =
                          compute_pi(Rows(X_current', idx), y_current',
                                     draw)[i]
            /\ \A j \in Samples :
                  (~eligible_'[j] /\ j # c) => pi_'[j] = pi_[j]
            /\ pi_'[c] = Zero

C9_ScoreLength == pi_ # None => Len(pi_) = NSamples

C9_UpdateOrder == [](C9_ScoreLength) /\ [][C9_UpdateStep]_vars

C9_Witness ==
    /\ pc = "loop"
    /\ iterative
    /\ ~warm_start
    /\ n_selected_ = 1
    /\ n_selected_ < n_to_select
    /\ y_current # None
    /\ y_current # fit_y
    /\ X_current # X
    /\ ~AllZero(pi_)

\* C10 (as claimed): during a fit, y_current is present exactly when the
\* caller passed targets to that fit, and then has one row per row of
\* X_current.
C10_TargetPresentIffSupplied ==
    Running =>
        /\ (y_current # None) <=> (fit_y # None)
        /\ y_current # None => Len(y_current) = Len(X_current)
====
